---------------------------- MODULE Spec2Model ----------------------------
(***************************************************************************)
(* A model of mon.py: the extension classifier (getext), the ChangeHandler *)
(* dispatch rule, the two command runners (run_tests, build_docs) and the  *)
(* restart loop of main() around a watchdog Observer.                      *)
(*                                                                         *)
(* Strings are sequences of one-character strings, so that indexing,       *)
(* slicing, rfind and lower() are modelled by what they do.                *)
(***************************************************************************)
EXTENDS Integers, Sequences, FiniteSets, TLC

VARIABLES
    \* ---- getext() called on its own (ExtSpec) ----
    filename,       \* the argument of getext
    extension,      \* <<the value getext returned>>, << >> before the call
    \* ---- one ChangeHandler object (HandlerSpec) ----
    h_exts,         \* self.__exts
    h_func,         \* self.__func
    h_ctor,         \* <<the `extensions` argument the handler was built from>>
    h_event,        \* <<the event of the on_any_event call>>, << >> outside a call
    h_calls,        \* the arguments self.__func received during that call
    h_outcome,      \* how that call ended: "returned" or "raised"
    \* ---- the running program: main(), its observers, the runners (Spec) ----
    mainpc,         \* the statement of main() the main thread is at
    cycle,          \* the number of the iteration of main()'s outer loop
    test_handler,   \* <<main()'s local test_handler>>, << >> before line 63
    docs_handler,   \* <<main()'s local docs_handler>>, << >> before line 64
    observers,      \* the Observer objects created so far; main()'s local
                    \* `observer` is the last one
    cwd,            \* the working directory of the process
    fs,             \* the filesystem events that have happened, in order
    finished        \* the runner invocations that have returned, each with
                    \* what it did, in order

extVars == <<filename, extension>>
handlerVars == <<h_exts, h_func, h_ctor, h_event, h_calls, h_outcome>>
sysVars ==
    <<mainpc, cycle, test_handler, docs_handler, observers, cwd, fs, finished>>
vars == <<extVars, handlerVars, sysVars>>

None == "None"

\* ------------------------------------------------------------------ bounds
\* longest path, in pieces, that is enumerated
MaxPieces == 3
\* longest `extensions` sequence a ChangeHandler is built from
MaxExts == 2
\* number of filesystem events that happen
MaxEvents == 1
\* number of interrupts that main() catches and restarts after
MaxRestarts == 1
\* number of iterations of main()'s outer loop that are followed
MaxCycle == MaxRestarts + 1

\* ----------------------------------------------------------------- strings
Range(s) == {s[i] : i \in 1..Len(s)}

IsPrefix(a, b) == Len(a) <= Len(b) /\ SubSeq(b, 1, Len(a)) = a

Sep == "/"
ExtSep == "."

UpperLetters ==
    <<"A", "B", "C", "D", "E", "F", "G", "H", "I", "J", "K", "L", "M",
      "N", "O", "P", "Q", "R", "S", "T", "U", "V", "W", "X", "Y", "Z">>
LowerLetters ==
    <<"a", "b", "c", "d", "e", "f", "g", "h", "i", "j", "k", "l", "m",
      "n", "o", "p", "q", "r", "s", "t", "u", "v", "w", "x", "y", "z">>

\* str.lower() on one character: an upper-case letter becomes its lower-case
\* letter, every other character is kept
LowerChar(c) ==
    IF c \in Range(UpperLetters)
    THEN LowerLetters[CHOOSE i \in 1..Len(UpperLetters) : UpperLetters[i] = c]
    ELSE c

Lower(s) == [i \in 1..Len(s) |-> LowerChar(s[i])]

\* str.rfind(c): the highest index holding c; Python's -1 is 0 here, as
\* indices are 1-based
RFind(p, c) ==
    IF c \in Range(p)
    THEN CHOOSE i \in 1..Len(p) : p[i] = c /\ \A j \in (i+1)..Len(p) : p[j] # c
    ELSE 0

\* the loop of genericpath._splitext that skips the leading dots of the last
\* segment: the extension starts at dotIndex only if a character that is not
\* a dot stands between the last separator and the last dot
RECURSIVE SkipLeadingDots(_, _, _)
SkipLeadingDots(p, filenameIndex, dotIndex) ==
    IF filenameIndex < dotIndex
    THEN IF p[filenameIndex] # ExtSep
         THEN <<SubSeq(p, 1, dotIndex - 1), SubSeq(p, dotIndex, Len(p))>>
         ELSE SkipLeadingDots(p, filenameIndex + 1, dotIndex)
    ELSE <<p, <<>>>>

\* os.path.splitext(p) on POSIX: (root, ext)
splitext(p) ==
    LET sepIndex == RFind(p, Sep)
        dotIndex == RFind(p, ExtSep)
    IN  IF dotIndex > sepIndex
        THEN SkipLeadingDots(p, sepIndex + 1, dotIndex)
        ELSE <<p, <<>>>>

\* getext without the .lower()
getext_NoLower(filename_) == splitext(filename_)[2]

\* getext(filename): os.path.splitext(filename)[-1].lower()
getext(filename_) == Lower(splitext(filename_)[2])

\* ------------------------------------------------------------- path inputs
DotLua == <<".", "l", "u", "a">>
DotLUA == <<".", "L", "U", "A">>
DotMd  == <<".", "m", "d">>

Pieces ==
    { <<"/">>, <<".">>, <<"x">>, <<"l", "u", "a">>, <<"L", "U", "A">>,
      <<"L", "u", "a">>, <<"m", "d">> }

RECURSIVE Concat(_)
Concat(ps) == IF ps = <<>> THEN <<>> ELSE Head(ps) \o Concat(Tail(ps))

\* the examples the documentation of the classifier names:
\* README, a/b/c.LUA, Foo.LUA
ExamplePaths ==
    { <<"R", "E", "A", "D", "M", "E">>,
      <<"a", "/", "b", "/", "c", ".", "L", "U", "A">>,
      <<"F", "o", "o", ".", "L", "U", "A">> }

Paths ==
    ExamplePaths \cup
    UNION { {Concat(ps) : ps \in [1..n -> Pieces]} : n \in 0..MaxPieces }

\* --------------------------------------------------------- getext, ExtSpec
\* no ChangeHandler exists
NoHandler ==
    /\ h_exts = <<>> /\ h_func = None /\ h_ctor = <<>>
    /\ h_event = <<>> /\ h_calls = <<>> /\ h_outcome = None

\* getext is not being called
NoExtCall == filename = <<>> /\ extension = <<>>

\* main() is not running
NoProgram ==
    /\ mainpc = None /\ cycle = 0
    /\ test_handler = <<>> /\ docs_handler = <<>>
    /\ observers = <<>> /\ cwd = <<>> /\ fs = <<>> /\ finished = {}

ExtInit ==
    /\ filename \in Paths
    /\ extension = <<>>
    /\ NoHandler
    /\ NoProgram

\* one call of getext
ExtCall ==
    /\ extension = <<>>
    /\ extension' = <<getext(filename)>>
    /\ UNCHANGED <<filename, handlerVars, sysVars>>

\* the caller goes on to the next path
ExtNextPath ==
    /\ extension # <<>>
    /\ filename' \in Paths
    /\ extension' = <<>>
    /\ UNCHANGED <<handlerVars, sysVars>>

ExtNext == ExtCall \/ ExtNextPath

ExtSpec == ExtInit /\ [][ExtNext]_vars

\* ------------------------------------------------ ChangeHandler, HandlerSpec
Exts == {DotLua, DotMd, DotLUA}
Funcs == {"run_tests", "build_docs"}

\* the `extensions` argument: one string, or a sequence of strings
CtorInputs ==
    [type : {"str"}, value : Exts] \cup
    [type : {"list"}, value : UNION {[1..n -> Exts] : n \in 0..MaxExts}]

\* a filesystem event as watchdog hands it to a handler
Events == [src_path : Paths, is_directory : BOOLEAN]

\* __init__ lowercasing the extensions it is given
ChangeHandler_LowerExts(extensions, func) ==
    [exts |-> IF extensions.type = "str"
              THEN <<Lower(extensions.value)>>
              ELSE [i \in 1..Len(extensions.value) |-> Lower(extensions.value[i])],
     func |-> func]

\* __init__ keeping only the first extension of a sequence
ChangeHandler_FirstOnly(extensions, func) ==
    [exts |-> IF extensions.type = "str"
              THEN <<extensions.value>>
              ELSE IF extensions.value = <<>>
                   THEN <<>>
                   ELSE <<Head(extensions.value)>>,
     func |-> func]

\* list(s) of a string s: its characters, each a string of length one
ListOfStr(s) == [i \in 1..Len(s) |-> <<s[i]>>]

\* __init__ without the isinstance test: list(extensions) of a string
ChangeHandler_NoStrCheck(extensions, func) ==
    [exts |-> IF extensions.type = "str"
              THEN ListOfStr(extensions.value)
              ELSE extensions.value,
     func |-> func]

\* ChangeHandler.__init__(extensions, func)
ChangeHandler(extensions, func) ==
    [exts |-> IF extensions.type = "str"
              THEN <<extensions.value>>
              ELSE extensions.value,
     func |-> func]

\* on_any_event without the is_directory test
on_any_event_NoDirCheck(self, event) ==
    IF getext(event.src_path) \in Range(self.exts)
    THEN [calls |-> <<[func |-> self.func, arg |-> event]>>, outcome |-> "returned"]
    ELSE [calls |-> <<>>, outcome |-> "returned"]

\* on_any_event raising for an extension that is not watched
on_any_event_RaiseOnMiss(self, event) ==
    IF event.is_directory
    THEN [calls |-> <<>>, outcome |-> "returned"]
    ELSE IF getext(event.src_path) \in Range(self.exts)
         THEN [calls |-> <<[func |-> self.func, arg |-> event]>>,
               outcome |-> "returned"]
         ELSE [calls |-> <<>>, outcome |-> "raised"]

\* ChangeHandler.on_any_event(event): the calls of self.__func it makes, in
\* order, and how it ends
on_any_event(self, event) ==
    IF event.is_directory
    THEN [calls |-> <<>>, outcome |-> "returned"]
    ELSE IF getext(event.src_path) \in Range(self.exts)
         THEN [calls |-> <<[func |-> self.func, arg |-> event]>>,
               outcome |-> "returned"]
         ELSE [calls |-> <<>>, outcome |-> "returned"]

HandlerInit ==
    \E extensions \in CtorInputs, func \in Funcs :
        /\ NoExtCall
        /\ NoProgram
        /\ h_ctor = <<extensions>>
        /\ h_exts = ChangeHandler(extensions, func).exts
        /\ h_func = ChangeHandler(extensions, func).func
        /\ h_event = <<>>
        /\ h_calls = <<>>
        /\ h_outcome = None

\* one call of on_any_event on the handler
HandlerOnAnyEvent ==
    /\ h_event = <<>>
    /\ \E event \in Events :
        LET r == on_any_event([exts |-> h_exts, func |-> h_func], event)
        IN  /\ h_event' = <<event>>
            /\ h_calls' = r.calls
            /\ h_outcome' = r.outcome
            /\ UNCHANGED <<h_exts, h_func, h_ctor, extVars, sysVars>>

\* the caller is done with the event; the handler is ready for the next one
HandlerEventDone ==
    /\ h_event # <<>>
    /\ h_event' = <<>>
    /\ h_calls' = <<>>
    /\ h_outcome' = None
    /\ UNCHANGED <<h_exts, h_func, h_ctor, extVars, sysVars>>

HandlerNext == HandlerOnAnyEvent \/ HandlerEventDone

HandlerSpec == HandlerInit /\ [][HandlerNext]_vars

\* ------------------------------------------------------- the program, Spec
\* BASEDIR: the absolute path of the directory that holds mon.py
BASEDIR == <<"/", "b">>

\* os.path.join(a, b) for a relative b
Join(a, b) == a \o <<Sep>> \o b

SrcName == <<"s", "r", "c">>

\* the directories the process may be started in
StartDirs == {BASEDIR, <<"/">>}

\* the filesystem events that happen under BASEDIR: a .lua file inside src
\* and outside it, files of another extension inside src and outside it,
\* and a directory whose name ends in .lua
SrcFooLua == Join(Join(BASEDIR, SrcName), <<"f", "o", "o">> \o DotLua)
TreeEvents ==
    { [src_path |-> SrcFooLua, is_directory |-> FALSE],
      [src_path |-> Join(BASEDIR, <<"t">> \o DotLua), is_directory |-> FALSE],
      [src_path |-> Join(Join(BASEDIR, SrcName), <<"r">> \o DotMd),
       is_directory |-> FALSE],
      [src_path |-> Join(BASEDIR, <<"r">> \o DotMd), is_directory |-> FALSE],
      [src_path |-> Join(Join(BASEDIR, SrcName), <<"d">> \o DotLua),
       is_directory |-> TRUE] }

\* "-" * 79
SepWidth == 79
SepLine == [char |-> "-", width |-> SepWidth]

\* sys.stderr for the banner (file=sys.stderr), sys.stdout for print() with
\* no file argument
BannerStream == "stderr"
\* the separators printed with file=sys.stderr as well
SepStream_Stderr == "stderr"
SepStream == "stdout"

\* what the two runners differ in: the banner's label, the command and
\* whether subprocess.call is given shell=True
build_docs ==
    [label |-> "Building docs at %s", cmd |-> "ldoc.lua src", shell |-> TRUE]
\* run_tests calling subprocess.call('busted', shell=True)
run_tests_Shell ==
    [label |-> "Running unit tests at %s", cmd |-> "busted", shell |-> TRUE]
run_tests ==
    [label |-> "Running unit tests at %s", cmd |-> "busted", shell |-> FALSE]
Runner(func) == IF func = "run_tests" THEN run_tests ELSE build_docs

\* the exit statuses of the external command
ExitStatuses == {0, 1}

\* subprocess.Popen in place of subprocess.call: the runner not waiting for
\* the command it has started
RunnerSteps_NoWait == <<"banner", "sep1", "chdir", "call", "sep2">>

\* the runner changing directory after its command instead of before it
RunnerSteps_ChdirLast == <<"banner", "sep1", "call", "wait", "chdir", "sep2">>

\* the runner changing directory before it prints
RunnerSteps_ChdirFirst == <<"chdir", "banner", "sep1", "call", "wait", "sep2">>

\* the statements of a runner, in order; "wait" is subprocess.call waiting
\* for the command it has started
RunnerSteps == <<"banner", "sep1", "chdir", "call", "wait", "sep2">>

\* the worker's position after the runner statement `step`: the statement
\* that follows it, or the worker's loop after the last one
After(step) ==
    LET i == CHOOSE k \in 1..Len(RunnerSteps) : RunnerSteps[k] = step
    IN  IF i < Len(RunnerSteps) THEN RunnerSteps[i + 1] ELSE "check"

\* subprocess.check_call in place of subprocess.call: a status other than 0
\* raises in the worker
OnExit_Raise(status) == IF status = 0 THEN After("wait") ELSE "crashed"

\* the worker's position when the command has exited with `status`:
\* subprocess.call returns the status and the runner drops it
OnExit(status) == After("wait")

\* the test handler made once, before the loop, and used by every iteration
TestHandler_Shared(c) ==
    [self |-> ChangeHandler([type |-> "str", value |-> DotLua], "run_tests"),
     made |-> 1, role |-> "test"]

\* the two handlers of main(), with the iteration that made each
TestHandler(c) ==
    [self |-> ChangeHandler([type |-> "str", value |-> DotLua], "run_tests"),
     made |-> c, role |-> "test"]
DocsHandler(c) ==
    [self |-> ChangeHandler([type |-> "str", value |-> DotLua], "build_docs"),
     made |-> c, role |-> "docs"]

\* the test handler scheduled without recursive=True
TestWatch_NotRecursive == [path |-> BASEDIR, recursive |-> FALSE]
TestWatch == [path |-> BASEDIR, recursive |-> TRUE]
\* the docs handler watching BASEDIR/doc
DocsWatch_Doc == [path |-> Join(BASEDIR, <<"d", "o", "c">>), recursive |-> TRUE]
DocsWatch == [path |-> Join(BASEDIR, SrcName), recursive |-> TRUE]

\* a watch sees the events of the paths below its directory: all of them
\* when recursive, the directory's own entries otherwise
Covers(watch, p) ==
    /\ IsPrefix(watch.path \o <<Sep>>, p)
    /\ Len(p) > Len(watch.path) + 1
    /\ watch.recursive \/
         Sep \notin Range(SubSeq(p, Len(watch.path) + 2, Len(p)))

NewObserverObject ==
    [watches |-> <<>>, started |-> FALSE, stopped |-> FALSE,
     queue |-> <<>>, wpc |-> "unstarted", cur |-> <<>>]

Init ==
    /\ NoExtCall
    /\ NoHandler
    /\ mainpc = "new_handlers"
    /\ cycle = 1
    /\ test_handler = <<>>
    /\ docs_handler = <<>>
    /\ observers = <<>>
    /\ cwd \in StartDirs
    /\ fs = <<>>
    /\ finished = {}

Alive == mainpc # "killed"
Observer == observers[Len(observers)]
notSys == <<extVars, handlerVars>>

\* ---- the main thread ----
\* lines 63-64
NewHandlers ==
    /\ mainpc = "new_handlers"
    /\ test_handler' = <<TestHandler(cycle)>>
    /\ docs_handler' = <<DocsHandler(cycle)>>
    /\ mainpc' = "new_observer"
    /\ UNCHANGED <<cycle, observers, cwd, fs, finished, notSys>>

\* line 66
NewObserver ==
    /\ mainpc = "new_observer"
    /\ observers' = Append(observers, NewObserverObject)
    /\ mainpc' = "schedule_test"
    /\ UNCHANGED <<cycle, test_handler, docs_handler, cwd, fs, finished, notSys>>

Schedule(handler, watch) ==
    observers' = [observers EXCEPT ![Len(observers)].watches =
                     Append(@, [handler |-> handler, watch |-> watch])]

\* line 67
ScheduleTest ==
    /\ mainpc = "schedule_test"
    /\ Schedule(test_handler[1], TestWatch)
    /\ mainpc' = "schedule_docs"
    /\ UNCHANGED <<cycle, test_handler, docs_handler, cwd, fs, finished, notSys>>

\* line 68
ScheduleDocs ==
    /\ mainpc = "schedule_docs"
    /\ Schedule(docs_handler[1], DocsWatch)
    /\ mainpc' = "start"
    /\ UNCHANGED <<cycle, test_handler, docs_handler, cwd, fs, finished, notSys>>

\* line 69: the observer's thread and its emitters start
Start ==
    /\ mainpc = "start"
    /\ observers' = [observers EXCEPT ![Len(observers)].started = TRUE,
                                      ![Len(observers)].wpc = "check"]
    /\ mainpc' = "sleep"
    /\ UNCHANGED <<cycle, test_handler, docs_handler, cwd, fs, finished, notSys>>

\* the try of line 71 around all of the loop's body: every interrupt is
\* caught and followed by observer.stop()
Interrupt_AlwaysCaught ==
    /\ Alive
    /\ cycle < MaxCycle
    /\ mainpc' = "stop"
    /\ UNCHANGED <<cycle, test_handler, docs_handler, observers, cwd, fs, finished,
                   notSys>>

\* main() without the try/except of lines 71-75: no interrupt is caught
Interrupt_NotCaught ==
    /\ Alive
    /\ mainpc' = "killed"
    /\ UNCHANGED <<cycle, test_handler, docs_handler, observers, cwd, fs, finished,
                   notSys>>

\* KeyboardInterrupt in the main thread: caught by the except of line 74
\* when the thread is inside the try of lines 71-73, and otherwise leaving
\* main(), which ends the process
Interrupt ==
    /\ Alive
    /\ IF mainpc = "sleep"
       THEN cycle < MaxCycle /\ mainpc' = "stop"
       ELSE mainpc' = "killed"
    /\ UNCHANGED <<cycle, test_handler, docs_handler, observers, cwd, fs, finished,
                   notSys>>

\* line 75: observer.stop() sets the stop flag; the emitters stop
Stop ==
    /\ mainpc = "stop"
    /\ observers' = [observers EXCEPT ![Len(observers)].stopped = TRUE]
    /\ mainpc' = "join"
    /\ UNCHANGED <<cycle, test_handler, docs_handler, cwd, fs, finished, notSys>>

\* main() not waiting for the observer's thread
JoinReturns_NoWait == TRUE

\* observer.join() returns when the observer's thread has ended
JoinReturns == Observer.wpc = "exited"

\* line 77, and back to line 62
JoinObserver ==
    /\ mainpc = "join"
    /\ JoinReturns
    /\ mainpc' = "new_handlers"
    /\ cycle' = cycle + 1
    /\ UNCHANGED <<test_handler, docs_handler, observers, cwd, fs, finished, notSys>>

Main ==
    \/ NewHandlers \/ NewObserver \/ ScheduleTest \/ ScheduleDocs \/ Start
    \/ Stop \/ JoinObserver

\* ---- the filesystem ----
\* the observer's emitters are running
Receiving(o) == observers[o].started /\ ~observers[o].stopped

Reverse(q) == [i \in 1..Len(q) |-> q[Len(q) + 1 - i]]

\* what the emitters of observer o queue for event ev: one entry for each
\* watch that covers its path
Queued(o, ev) ==
    LET ws == SelectSeq(observers[o].watches,
                        LAMBDA w : Covers(w.watch, ev.src_path))
    IN  [i \in 1..Len(ws) |-> [event |-> ev, handler |-> ws[i].handler]]

\* something changes under BASEDIR; each watch has an emitter thread of its
\* own, so the entries of one event are queued in either order
FsEventOf(events) ==
    /\ Alive
    /\ Len(fs) < MaxEvents
    /\ \E e \in events, rev \in BOOLEAN :
        LET ev == [src_path |-> e.src_path, is_directory |-> e.is_directory,
                   id |-> Len(fs) + 1]
        IN  /\ fs' = Append(fs, [event |-> ev,
                                 seen_by |-> {o \in 1..Len(observers) :
                                                 Receiving(o)},
                                 calls |-> [f \in Funcs |-> 0]])
            /\ observers' =
                 [o \in 1..Len(observers) |->
                     IF Receiving(o)
                     THEN [observers[o] EXCEPT !.queue =
                             @ \o (IF rev THEN Reverse(Queued(o, ev))
                                          ELSE Queued(o, ev))]
                     ELSE observers[o]]
    /\ UNCHANGED <<mainpc, cycle, test_handler, docs_handler, cwd, finished,
                   notSys>>

FsEvent == FsEventOf(TreeEvents)

\* the same, for the events of a .lua file in src and of a directory
FairFsEvent == FsEventOf({e \in TreeEvents : e.src_path = SrcFooLua \/ e.is_directory})

\* ---- the thread of observer o ----
At(o, pc) == Alive /\ o \in 1..Len(observers) /\ observers[o].wpc = pc

Entry(kind, arg) == [kind |-> kind, arg |-> arg]

\* `while self.should_keep_running()` of the observer's run loop
WorkerCheck(o) ==
    /\ At(o, "check")
    /\ observers' = [observers EXCEPT ![o].wpc =
                        IF observers[o].stopped THEN "exited" ELSE "get"]
    /\ UNCHANGED <<mainpc, cycle, test_handler, docs_handler, cwd, fs, finished,
                   notSys>>

\* the wait for a queued event times out
WorkerTimeout(o) ==
    /\ At(o, "get")
    /\ observers[o].queue = <<>>
    /\ observers' = [observers EXCEPT ![o].wpc = "check"]
    /\ UNCHANGED <<mainpc, cycle, test_handler, docs_handler, cwd, fs, finished,
                   notSys>>

\* one queued event is handed to its handler: lines 53-58, up to the call
\* of the runner, whose invocation the worker then carries out
WorkerDispatch(o) ==
    /\ At(o, "get")
    /\ observers[o].queue # <<>>
    /\ LET item == Head(observers[o].queue)
           r == on_any_event(item.handler.self, item.event)
       IN  IF r.outcome = "raised"
           THEN /\ observers' = [observers EXCEPT ![o].queue = Tail(@),
                                                  ![o].wpc = "crashed"]
                /\ fs' = fs
           ELSE IF r.calls = <<>>
           THEN /\ observers' = [observers EXCEPT ![o].queue = Tail(@),
                                                  ![o].wpc = "check"]
                /\ fs' = fs
           ELSE /\ observers' =
                     [observers EXCEPT
                        ![o].queue = Tail(@),
                        ![o].wpc = RunnerSteps[1],
                        ![o].cur = <<[func |-> r.calls[1].func,
                                      arg |-> r.calls[1].arg,
                                      made |-> item.handler.made,
                                      obs |-> o,
                                      trace |-> <<>>]>>]
                /\ fs' = [fs EXCEPT ![item.event.id].calls[r.calls[1].func] =
                                       @ + Len(r.calls)]
    /\ UNCHANGED <<mainpc, cycle, test_handler, docs_handler, cwd, finished,
                   notSys>>

\* the invocation worker o is carrying out
Inv(o) == observers[o].cur[1]

\* the runner of worker o does `entry` and goes on to position pc
Does(o, entry, pc) ==
    observers' = [observers EXCEPT ![o].wpc = pc,
                                   ![o].cur[1].trace = Append(@, entry)]

\* lines 22 and 30: print(<label> % now(), file=sys.stderr)
RunBanner(o) ==
    /\ At(o, "banner")
    /\ Does(o, Entry("print",
                     [stream |-> BannerStream,
                      line |-> [label |-> Runner(Inv(o).func).label,
                                time |-> "now()"]]),
            After("banner"))
    /\ UNCHANGED <<mainpc, cycle, test_handler, docs_handler, cwd, fs, finished,
                   notSys>>

\* lines 23 and 31: print("-" * 79)
RunSep1(o) ==
    /\ At(o, "sep1")
    /\ Does(o, Entry("print", [stream |-> SepStream, line |-> SepLine]),
            After("sep1"))
    /\ UNCHANGED <<mainpc, cycle, test_handler, docs_handler, cwd, fs, finished,
                   notSys>>

\* lines 24 and 32: os.chdir(BASEDIR)
RunChdir(o) ==
    /\ At(o, "chdir")
    /\ cwd' = BASEDIR
    /\ Does(o, Entry("chdir", [dir |-> BASEDIR]), After("chdir"))
    /\ UNCHANGED <<mainpc, cycle, test_handler, docs_handler, fs, finished,
                   notSys>>

\* lines 25 and 33: subprocess.call starts the command, in the process's
\* working directory
RunCall(o) ==
    /\ At(o, "call")
    /\ Does(o, Entry("exec", [cmd |-> Runner(Inv(o).func).cmd,
                              shell |-> Runner(Inv(o).func).shell,
                              cwd |-> cwd]),
            After("call"))
    /\ UNCHANGED <<mainpc, cycle, test_handler, docs_handler, cwd, fs, finished,
                   notSys>>

\* lines 25 and 33: the command exits and subprocess.call returns
RunWait(o) ==
    /\ At(o, "wait")
    /\ \E status \in ExitStatuses :
          Does(o, Entry("exit", [status |-> status]), OnExit(status))
    /\ UNCHANGED <<mainpc, cycle, test_handler, docs_handler, cwd, fs, finished,
                   notSys>>

\* lines 26 and 34: print("-" * 79); the runner and on_any_event return
RunSep2(o) ==
    /\ At(o, "sep2")
    /\ LET entry == Entry("print", [stream |-> SepStream, line |-> SepLine])
       IN  /\ finished' = finished \cup
                 {[func |-> Inv(o).func, made |-> Inv(o).made,
                   obs |-> Inv(o).obs,
                   trace |-> Append(Inv(o).trace, entry)]}
           /\ observers' = [observers EXCEPT ![o].wpc = After("sep2"),
                                             ![o].cur = <<>>]
    /\ UNCHANGED <<mainpc, cycle, test_handler, docs_handler, cwd, fs, notSys>>

Worker(o) ==
    \/ WorkerCheck(o) \/ WorkerTimeout(o) \/ WorkerDispatch(o)
    \/ RunBanner(o) \/ RunSep1(o) \/ RunChdir(o) \/ RunCall(o)
    \/ RunWait(o) \/ RunSep2(o)

Next ==
    \/ NewHandlers \/ NewObserver \/ ScheduleTest \/ ScheduleDocs \/ Start
    \/ Stop \/ JoinObserver
    \/ Interrupt
    \/ FsEvent
    \/ \E o \in 1..MaxCycle :
        \/ WorkerCheck(o) \/ WorkerTimeout(o) \/ WorkerDispatch(o)
        \/ RunBanner(o) \/ RunSep1(o) \/ RunChdir(o) \/ RunCall(o)
        \/ RunWait(o) \/ RunSep2(o)

Spec == Init /\ [][Next]_vars

FairNext ==
    \/ Main
    \/ Interrupt
    \/ FairFsEvent
    \/ \E o \in 1..MaxCycle : Worker(o)

\* the threads are scheduled fairly and an external command once started
\* exits; nothing makes an interrupt or a filesystem event happen
FairSpec ==
    /\ Init
    /\ [][FairNext]_vars
    /\ WF_vars(Main)
    /\ \A o \in 1..MaxCycle : WF_vars(Worker(o))

\* an interrupt that arrives while main() is in the sleep loop of lines 72-73
SleepInterrupt == mainpc = "sleep" /\ Interrupt

WatchingNext ==
    \/ Main
    \/ SleepInterrupt
    \/ FsEvent
    \/ \E o \in 1..MaxCycle : Worker(o)

\* the program when every interrupt arrives during the sleep loop; the
\* threads are scheduled fairly and an external command once started exits
WatchingSpec ==
    /\ Init
    /\ [][WatchingNext]_vars
    /\ WF_vars(Main)
    /\ \A o \in 1..MaxCycle : WF_vars(Worker(o))

\* ===================================================================
\* Properties of getext (ExtSpec)
\* ===================================================================
README == <<"R", "E", "A", "D", "M", "E">>
ABCLUA == <<"a", "/", "b", "/", "c", ".", "L", "U", "A">>

Suffixes(s) == {SubSeq(s, i, Len(s)) : i \in 1..(Len(s) + 1)}

\* the final path segment: the longest suffix that holds no separator
FinalSegment(p) ==
    CHOOSE s \in Suffixes(p) :
        /\ Sep \notin Range(s)
        /\ \A t \in Suffixes(p) : Sep \notin Range(t) => Len(t) <= Len(s)

HasDot(s) == ExtSep \in Range(s)

\* the part of s that starts at its last dot, for s holding a dot
FromLastDot(s) ==
    CHOOSE e \in Suffixes(s) :
        /\ e # <<>>
        /\ e[1] = ExtSep
        /\ \A k \in 2..Len(e) : e[k] # ExtSep

\* the part of s before its last dot, for s holding a dot
BeforeLastDot(s) == SubSeq(s, 1, Len(s) - Len(FromLastDot(s)))

\* the extension as the documentation words it
DocumentedExt(p) ==
    IF HasDot(FinalSegment(p))
    THEN Lower(FromLastDot(FinalSegment(p)))
    ELSE <<>>

\* the same, with a last dot that only dots (or nothing) precede in the
\* final segment not starting an extension
LeadingDotsExt(p) ==
    IF /\ HasDot(FinalSegment(p))
       /\ \E c \in Range(BeforeLastDot(FinalSegment(p))) : c # ExtSep
    THEN Lower(FromLastDot(FinalSegment(p)))
    ELSE <<>>

\* C5 as stated: getext(p) is the lowercased part of the final segment of p
\* from its last dot on, and empty only when the final segment has no dot;
\* getext('README') = '' and getext('a/b/c.LUA') = '.lua'.
C5_AsStated ==
    extension # <<>> =>
        /\ extension[1] = DocumentedExt(filename)
        /\ filename = README => extension[1] = <<>>
        /\ filename = ABCLUA => extension[1] = DotLua

\* C5 amended: getext(p) is the lowercased part of the final segment of p
\* from its last dot on when a character other than a dot precedes that dot
\* in the final segment; it is empty when the final segment has no dot or
\* has nothing but dots before its last dot; getext('README') = '' and
\* getext('a/b/c.LUA') = '.lua'.
C5_GetextLeadingDots ==
    extension # <<>> =>
        /\ extension[1] = LeadingDotsExt(filename)
        /\ filename = README => extension[1] = <<>>
        /\ filename = ABCLUA => extension[1] = DotLua

\* getext has classified a/b/c.LUA as .lua
C5_Witness == filename = ABCLUA /\ extension = <<DotLua>>

\* ===================================================================
\* Properties of ChangeHandler (HandlerSpec)
\* ===================================================================
EndsWith(p, e) ==
    Len(e) <= Len(p) /\ SubSeq(p, Len(p) - Len(e) + 1, Len(p)) = e

\* p ends in e, and in the final segment of p a character other than a
\* dot stands before that e
EndsWithAfterStem(p, e) ==
    /\ EndsWith(p, e)
    /\ \E k \in 1..(Len(p) - Len(e)) :
          /\ p[k] \notin {ExtSep, Sep}
          /\ \A j \in k..(Len(p) - Len(e)) : p[j] # Sep

BuiltFromLuaString == h_ctor = <<[type |-> "str", value |-> DotLua]>>

InCall == h_event # <<>>
TheEvent == h_event[1]
CalledOnceWithTheEvent == h_calls = <<[func |-> h_func, arg |-> TheEvent]>>

\* C1 as stated: a handler built from the string '.lua' calls its action
\* exactly once, with the event, for every file event whose path ends in
\* '.lua'.
C1_AsStated ==
    (/\ BuiltFromLuaString
     /\ InCall
     /\ ~TheEvent.is_directory
     /\ EndsWith(TheEvent.src_path, DotLua)) => CalledOnceWithTheEvent

\* C1 amended: a handler built from the string '.lua' calls its action
\* exactly once, with the event, for every file event whose path ends in
\* '.lua' with a character other than a dot before that '.lua' in the final
\* path segment (a file named '.lua' or '..lua' has no extension).
C1_LuaFileEventCallsOnce ==
    (/\ BuiltFromLuaString
     /\ InCall
     /\ ~TheEvent.is_directory
     /\ EndsWithAfterStem(TheEvent.src_path, DotLua)) => CalledOnceWithTheEvent

\* the handler built from '.lua' has been called with the file event x.lua
C1_Witness ==
    /\ BuiltFromLuaString
    /\ InCall
    /\ TheEvent = [src_path |-> <<"x">> \o DotLua, is_directory |-> FALSE]
    /\ CalledOnceWithTheEvent

\* C2: an event with is_directory true never makes on_any_event call the
\* action, whatever its path.
C2_DirectoryEventNeverCalls ==
    (InCall /\ TheEvent.is_directory) => h_calls = <<>>

\* a directory event whose path has a watched extension was handed over and
\* the action was not called
C2_Witness ==
    /\ InCall
    /\ TheEvent.is_directory
    /\ getext(TheEvent.src_path) \in Range(h_exts)
    /\ h_calls = <<>>

\* C3: a file event whose extension is not watched makes on_any_event
\* return normally without calling the action.
C3_NonMatchingIgnoredSilently ==
    (/\ InCall
     /\ ~TheEvent.is_directory
     /\ getext(TheEvent.src_path) \notin Range(h_exts))
    => (h_calls = <<>> /\ h_outcome = "returned")

\* a handler watching .lua was handed the file event x.md and returned
C3_Witness ==
    /\ InCall
    /\ h_exts = <<DotLua>>
    /\ TheEvent = [src_path |-> <<"x">> \o DotMd, is_directory |-> FALSE]
    /\ h_calls = <<>>
    /\ h_outcome = "returned"

\* the strings a handler was asked to watch
Requested ==
    IF h_ctor[1].type = "str" THEN {h_ctor[1].value} ELSE Range(h_ctor[1].value)

\* C4: a handler built from a sequence S calls its action for a file event
\* exactly when the event's extension is a member of S; built from
\* ['.lua', '.md'], exactly when it is '.lua' or '.md'.
C4_MatchesExactlyMembers ==
    (InCall /\ ~TheEvent.is_directory) =>
        /\ (h_calls # <<>>) <=> (getext(TheEvent.src_path) \in Requested)
        /\ h_calls # <<>> => CalledOnceWithTheEvent
        /\ h_ctor = <<[type |-> "list", value |-> <<DotLua, DotMd>>]>> =>
              ((h_calls # <<>>) <=>
                  getext(TheEvent.src_path) \in {DotLua, DotMd})

\* the handler built from ['.lua', '.md'] has called its action for x.md
C4_Witness ==
    /\ h_ctor = <<[type |-> "list", value |-> <<DotLua, DotMd>>]>>
    /\ InCall
    /\ TheEvent = [src_path |-> <<"x">> \o DotMd, is_directory |-> FALSE]
    /\ CalledOnceWithTheEvent

\* ===================================================================
\* Properties of the runners and of main() (Spec, FairSpec)
\* ===================================================================
Last(q) == q[Len(q)]

\* the runner invocations being carried out
Running ==
    {observers[o].cur[1] :
        o \in {k \in 1..Len(observers) : observers[k].cur # <<>>}}

\* what the runners have done so far, one sequence for each invocation
Traces == {r.trace : r \in Running} \cup {f.trace : f \in finished}

IsSep(e) == e.kind = "print" /\ e.arg.line = SepLine
IsBanner(e) == e.kind = "print" /\ e.arg.line # SepLine

\* a trace entry without its stream: the step and what it is made on
Shape(e) ==
    CASE IsSep(e) -> [step |-> "separator", what |-> "-"]
      [] IsBanner(e) -> [step |-> "banner", what |-> e.arg.line.label]
      [] e.kind = "chdir" ->
            [step |-> "chdir",
             what |-> IF e.arg.dir = BASEDIR THEN "BASEDIR" ELSE "elsewhere"]
      [] e.kind = "exec" -> [step |-> "execute", what |-> e.arg.cmd]
      [] e.kind = "exit" -> [step |-> "exited", what |-> "-"]

Shapes(trace) == [i \in 1..Len(trace) |-> Shape(trace[i])]

ExitedWith(trace, status) ==
    \E i \in 1..Len(trace) :
        trace[i].kind = "exit" /\ trace[i].arg.status = status

RunnerSequence(label, cmd) ==
    << [step |-> "banner", what |-> label],
       [step |-> "separator", what |-> "-"],
       [step |-> "chdir", what |-> "BASEDIR"],
       [step |-> "execute", what |-> cmd],
       [step |-> "exited", what |-> "-"],
       [step |-> "separator", what |-> "-"] >>

DocumentedSequence(func) ==
    IF func = "run_tests"
    THEN RunnerSequence("Running unit tests at %s", "busted")
    ELSE RunnerSequence("Building docs at %s", "ldoc.lua src")

\* C6: one invocation of run_tests does, in this order: the banner, a
\* separator, the chdir to BASEDIR, one execution of busted and, when it has
\* exited with whatever status, a second separator; build_docs does the same
\* with one execution of "ldoc.lua src".  At every moment an invocation has
\* done a prefix of that sequence, and all of it once it has returned.
C6_RunnerSequence ==
    /\ \A r \in Running :
          IsPrefix(Shapes(r.trace), DocumentedSequence(r.func))
    /\ \A f \in finished :
          Shapes(f.trace) = DocumentedSequence(f.func)

\* run_tests has returned from an invocation whose command exited with 1
C6_Witness ==
    \E f \in finished : f.func = "run_tests" /\ ExitedWith(f.trace, 1)

\* the number of invocations of runner `func` made for filesystem event
\* number id
CallsFor(func, id) == fs[id].calls[func]

\* the first thing to happen once main() is watching was a file event for
\* src/foo.lua, main() has not been interrupted, and the observer has handed
\* the event to the handlers of every watch that covers it
SrcFooLuaHandled ==
    /\ mainpc = "sleep" /\ cycle = 1
    /\ fs # <<>>
    /\ fs[1].event.src_path = SrcFooLua
    /\ ~fs[1].event.is_directory
    /\ fs[1].seen_by = {1}
    /\ \A i \in 1..Len(observers[1].queue) :
          observers[1].queue[i].event.id # 1

RestartOrder ==
    /\ (mainpc = "sleep" /\ mainpc' # "sleep") =>
          (mainpc' = "stop" /\ observers' = observers)
    /\ (mainpc = "stop" /\ mainpc' # "stop" /\ mainpc' # "killed") =>
          (mainpc' = "join" /\ observers'[cycle].stopped)
    /\ (mainpc = "join" /\ mainpc' # "join" /\ mainpc' # "killed") =>
          /\ mainpc' = "new_handlers"
          /\ cycle' = cycle + 1
          /\ observers[cycle].stopped
          /\ observers[cycle].wpc = "exited"

\* when main() is watching, the observer and the two handlers are those of
\* the current iteration, with both watches registered
FreshCycle ==
    mainpc = "sleep" =>
        /\ Len(observers) = cycle
        /\ test_handler = <<TestHandler(cycle)>>
        /\ docs_handler = <<DocsHandler(cycle)>>
        /\ Observer.started /\ ~Observer.stopped
        /\ Observer.watches =
              << [handler |-> test_handler[1], watch |-> TestWatch],
                 [handler |-> docs_handler[1], watch |-> DocsWatch] >>

\* the observers of earlier iterations are stopped and their threads ended
OldObserversEnded ==
    \A o \in 1..Len(observers) :
        o < cycle => (observers[o].stopped /\ observers[o].wpc = "exited")

\* events are queued for, and handlers called by, the observer of the
\* current iteration only, and the handlers called are that iteration's
OnlyCurrentReceives ==
    /\ \A o \in 1..Len(observers) :
          (o < cycle /\ o <= Len(observers')) =>
              observers'[o].queue = observers[o].queue
    /\ \A o \in 1..Len(observers) :
          (observers[o].cur = <<>> /\ observers'[o].cur # <<>>) =>
              (o = cycle /\ observers'[o].cur[1].made = cycle)

RestartSafety ==
    /\ [][RestartOrder]_vars
    /\ []FreshCycle
    /\ []OldObserversEnded
    /\ [][OnlyCurrentReceives]_vars

ExitStep ==
    \A o \in 1..Len(observers) :
        (observers[o].wpc = "wait" /\ observers'[o].wpc # "wait") =>
            /\ \E status \in ExitStatuses :
                  observers' =
                    [observers EXCEPT
                       ![o].wpc = "sep2",
                       ![o].cur[1].trace =
                           Append(@, Entry("exit", [status |-> status]))]
            /\ UNCHANGED <<mainpc, cycle, test_handler, docs_handler, cwd, fs,
                           finished>>

\* no worker has been ended by a command's exit status, and every invocation
\* that has returned ended with the closing separator, whatever the status
ExitSurvived ==
    /\ \A o \in 1..Len(observers) : observers[o].wpc # "crashed"
    /\ \A f \in finished, status \in ExitStatuses :
          ExitedWith(f.trace, status) => IsSep(Last(f.trace))

\* C9: for every exit status of the command the runner goes on to the closing
\* separator and returns, and the rest of the program's state is what it was,
\* so the worker keeps dispatching.
C9_ExitStatusDiscarded == [][ExitStep]_vars /\ []ExitSurvived

\* after an invocation whose command exited with 1 has returned, the same
\* observer has dispatched another event to a handler that called its runner
C9_Witness ==
    \E f \in finished, r \in Running :
        /\ ExitedWith(f.trace, 1)
        /\ r.obs = f.obs
        /\ mainpc = "sleep"

\* the lines printed so far
Prints ==
    UNION {{t[i] : i \in {k \in 1..Len(t) : t[k].kind = "print"}} : t \in Traces}

\* C10 as stated: the banner and both separators go to standard error, none
\* to standard output.
C10_AsStated == \A e \in Prints : e.arg.stream = "stderr"

\* C10 amended: the banner goes to standard error; the two separators, of
\* 79 characters each, go to standard output.
C10_BannerStderrSeparatorsStdout ==
    \A e \in Prints :
        /\ IsBanner(e) => e.arg.stream = "stderr"
        /\ IsSep(e) => (e.arg.stream = "stdout" /\ e.arg.line.width = 79)

\* a runner has returned, having printed its banner and both separators
C10_Witness ==
    \E f \in finished :
        /\ \E i \in 1..Len(f.trace) : IsBanner(f.trace[i])
        /\ Cardinality({i \in 1..Len(f.trace) : IsSep(f.trace[i])}) = 2

\* ===================================================================
\* Properties of the program as a whole (Spec, FairSpec)
\* ===================================================================
HasKind(trace, kind) == \E i \in 1..Len(trace) : trace[i].kind = kind

\* the command of the invocation with this trace has been started and has
\* not exited
CommandRunning(trace) == HasKind(trace, "exec") /\ ~HasKind(trace, "exit")

\* the workers whose runner has a command running
Executing ==
    {o \in 1..Len(observers) :
        observers[o].cur # <<>> /\ CommandRunning(Inv(o).trace)}

\* the invocations that returned with their command still running
LeftRunning == {f \in finished : CommandRunning(f.trace)}

AtMostOneCommand == Cardinality(Executing) + Cardinality(LeftRunning) <= 1

\* a command is started only when none is running, and while one runs the
\* working directory stays what it is and no other runner makes a step
OneAtATime ==
    /\ (Executing' # Executing /\ Executing' # {}) => Executing = {}
    /\ Executing # {} =>
          /\ cwd' = cwd
          /\ \A o \in 1..Len(observers) :
                (o \notin Executing /\ observers[o].cur # <<>>) =>
                    observers'[o].cur = observers[o].cur

OnTheWayBack ==
    {"new_handlers", "new_observer", "schedule_test", "schedule_docs", "start",
     "stop", "join"}

\* C12: when every interrupt arrives while main() is in its sleep loop,
\* then whatever the filesystem events and the commands' exit statuses,
\* main() never ends: it is always in the sleep loop or at a statement on
\* the way back to it, and from each of these it reaches the sleep loop
\* again (the threads run and a running command exits).
C12_NeverEndsWhileWatching ==
    /\ [](mainpc = "sleep" \/ mainpc \in OnTheWayBack)
    /\ (mainpc \in OnTheWayBack) ~> (mainpc = "sleep")

\* main() is watching again after an interrupt caught in the sleep loop, and
\* a command of the first iteration has exited with status 1
C12_Witness ==
    /\ mainpc = "sleep" /\ cycle = 2
    /\ \E f \in finished :
          /\ f.obs = 1
          /\ ExitedWith(f.trace, 1)
          /\ fs[1].seen_by = {1}

\* a step of the main thread that carries out none of main()'s statements:
\* an interrupt has arrived
InterruptStep ==
    /\ mainpc' # mainpc
    /\ UNCHANGED <<cycle, test_handler, docs_handler, observers, cwd, fs, finished>>

\* an interrupt outside the sleep loop ends main()
NotCaughtOutsideSleep ==
    (InterruptStep /\ mainpc \in OnTheWayBack) => mainpc' = "killed"

\* nothing happens once main() has ended
Terminated == mainpc = "killed" => UNCHANGED vars

\* C13: an interrupt that arrives while main() is handling an earlier
\* interrupt (observer.stop()), waiting in observer.join(), or building the
\* handlers, the observer and the watches and starting the observer, is not
\* caught: main() ends and with it the process, and no other watch cycle
\* starts.
C13_InterruptOutsideSleepEndsMain ==
    [][NotCaughtOutsideSleep]_vars /\ [][Terminated]_vars

\* the process has ended by an interrupt that arrived during observer.join(),
\* while the stopped observer's runner had its command running
C13_Witness ==
    /\ mainpc = "killed"
    /\ cycle = 1 /\ Len(observers) = 1
    /\ Observer.stopped
    /\ Executing = {1}

\* the observers whose emitters are running: started and not yet stopped
Live == {o \in 1..Len(observers) : Receiving(o)}

\* the handlers registered with observer o
Registered(o) == {observers[o].watches[i].handler :
                     i \in 1..Len(observers[o].watches)}

\* the handlers registered with observer o are one test handler and one docs
\* handler
IsPair(o) ==
    /\ Len(observers[o].watches) = 2
    /\ {h.role : h \in Registered(o)} = {"test", "docs"}

ExactlyOnePairLive == Cardinality(Live) = 1 /\ \A o \in Live : IsPair(o)
AtMostOnePairLive == Cardinality(Live) <= 1 /\ \A o \in Live : IsPair(o)

\* the handlers registered with an observer, and those whose runner an
\* observer has called, were made by the iteration that made the observer
OwnPair ==
    /\ \A o \in 1..Len(observers) : \A h \in Registered(o) : h.made = o
    /\ \A r \in Running : r.made = r.obs
    /\ \A f \in finished : f.made = f.obs

\* C14 as stated: in every state exactly one pair of handlers is registered
\* with a started, not yet stopped observer, and every handler is registered
\* with and called by the observer of its own iteration only.
C14_AsStated == ExactlyOnePairLive /\ OwnPair

\* C14 amended: in every state at most one pair of handlers is registered
\* with a started, not yet stopped observer, and exactly one while main() is
\* in its sleep loop; every handler is registered with and called by the
\* observer of its own iteration only.
C14_OnePairLiveWhileWatching ==
    /\ AtMostOnePairLive
    /\ mainpc = "sleep" => ExactlyOnePairLive
    /\ OwnPair

\* the second iteration is watching with its own pair, while the first
\* iteration's pair is still registered with the stopped first observer
C14_Witness ==
    /\ mainpc = "sleep" /\ cycle = 2
    /\ Live = {2}
    /\ IsPair(1) /\ IsPair(2)
    /\ Registered(1) \cap Registered(2) = {}

\* the command executions made so far by the invocations of runner func
Execs(func) ==
    UNION {{r.trace[i] : i \in {k \in 1..Len(r.trace) : r.trace[k].kind = "exec"}} :
              r \in {x \in Running : x.func = func}}
    \cup
    UNION {{f.trace[i] : i \in {k \in 1..Len(f.trace) : f.trace[k].kind = "exec"}} :
              f \in {x \in finished : x.func = func}}

\* C15 as stated: run_tests executes busted through the shell and build_docs
\* executes "ldoc.lua src" through the shell.
C15_AsStated ==
    /\ \A e \in Execs("run_tests") : e.arg.cmd = "busted" /\ e.arg.shell
    /\ \A e \in Execs("build_docs") : e.arg.cmd = "ldoc.lua src" /\ e.arg.shell

\* C15 amended: build_docs executes "ldoc.lua src" through the shell;
\* run_tests executes busted directly, without a shell.
C15_OnlyDocsThroughShell ==
    /\ \A e \in Execs("run_tests") : e.arg.cmd = "busted" /\ ~e.arg.shell
    /\ \A e \in Execs("build_docs") : e.arg.cmd = "ldoc.lua src" /\ e.arg.shell

\* both runners have executed their command
C15_Witness == Execs("run_tests") # {} /\ Execs("build_docs") # {}

\* every runner invocation in progress is one of the current iteration's
\* observer
RunningIsCurrent == \A r \in Running : r.obs = cycle

\* observer.join() returns, and the next iteration begins, only when the
\* observer's thread has ended with no runner invocation in progress
JoinWaits ==
    (mainpc = "join" /\ mainpc' = "new_handlers") =>
        /\ observers[cycle].wpc = "exited"
        /\ observers[cycle].cur = <<>>
        /\ Running = {}

\* a runner that an observer of an earlier iteration called has returned,
\* its command exited and its closing separator printed
EarlierReturned ==
    \A i \in 1..Len(fs), func \in Funcs, o \in 1..Len(observers) :
        (o < cycle /\ o \in fs[i].seen_by /\ CallsFor(func, i) > 0) =>
            \E f \in finished :
                /\ f.obs = o /\ f.func = func
                /\ HasKind(f.trace, "exit")
                /\ IsSep(Last(f.trace))

\* C16: no iteration of main() begins while a command started in the
\* previous one is running: when main() is interrupted while the observer's
\* thread is inside run_tests or build_docs, observer.join() returns, and
\* new handlers and a new observer are made, only after that command has
\* exited and the closing separator has been printed.
C16_NoNewCycleWhileCommandRuns ==
    /\ []RunningIsCurrent
    /\ [][JoinWaits]_vars
    /\ []EarlierReturned

\* main() is in observer.join() after an interrupt, and the stopped observer's
\* thread is inside a runner whose command is running
C16_Witness ==
    /\ mainpc = "join"
    /\ Observer.stopped
    /\ Executing = {cycle}

\* filesystem event number i happened while an observer was watching, and
\* that observer has handed it to the handler of every watch that covers it
Delivered(i) ==
    /\ fs[i].seen_by # {}
    /\ \A o \in 1..Len(observers) :
          \A k \in 1..Len(observers[o].queue) :
              observers[o].queue[k].event.id # i

UnderBase(p) == IsPrefix(BASEDIR \o <<Sep>>, p)
UnderSrc(p) == IsPrefix(Join(BASEDIR, SrcName) \o <<Sep>>, p)
HasExtLua(p) == getext(p) = DotLua

InBasedirWhileExecuting ==
    /\ Executing # {} => cwd = BASEDIR
    /\ \A func \in Funcs : \A e \in Execs(func) : e.arg.cwd = BASEDIR

\* the working directory changes only by the os.chdir(BASEDIR) of a runner
OnlyRunnersChdir ==
    cwd' # cwd =>
        /\ cwd' = BASEDIR
        /\ \E o \in 1..Len(observers) :
              observers[o].wpc = "chdir" /\ observers'[o].wpc # "chdir"

\* C18: whenever an external command is executing, the working directory of
\* the process is BASEDIR, whatever directory the process was started in and
\* in whatever order events reach the two handlers: a runner changes to
\* BASEDIR before it starts its command and nothing else changes the
\* working directory.
C18_CommandRunsInBasedir ==
    []InBasedirWhileExecuting /\ [][OnlyRunnersChdir]_vars

\* run_tests has its command running in BASEDIR after build_docs, called
\* first for the same event, has returned
C18_Witness ==
    /\ cwd = BASEDIR
    /\ \E o \in Executing : Inv(o).func = "run_tests"
    /\ \E f \in finished : f.func = "build_docs"

\* ===================================================================
\* Properties of extension matching (HandlerSpec)
\* ===================================================================
HasUpper(e) == \E c \in Range(e) : c \in Range(UpperLetters)

XDot == <<"x", ".">>
XLuaSpellings ==
    {XDot \o <<"l", "u", "a">>, XDot \o <<"L", "U", "A">>,
     XDot \o <<"L", "u", "a">>}

\* C19: only the event's path is lowercased, not the extensions the handler
\* was built from: a file event calls the action exactly when the lowercased
\* extension of its path is, character for character, one of those
\* extensions; so a handler built only from extensions holding an upper-case
\* letter (as '.LUA') calls its action for no event, and a handler built from
\* '.lua' calls it for x.lua, x.LUA and x.Lua alike.
C19_OnlyPathLowercased ==
    InCall =>
        /\ ~TheEvent.is_directory =>
              ((h_calls # <<>>) <=>
                  \E e \in Requested : e = LeadingDotsExt(TheEvent.src_path))
        /\ (\A e \in Requested : HasUpper(e)) => h_calls = <<>>
        /\ (/\ BuiltFromLuaString
            /\ ~TheEvent.is_directory
            /\ TheEvent.src_path \in XLuaSpellings) => CalledOnceWithTheEvent

\* the handler built from '.LUA' has been given the file event for x.LUA and
\* has not called its action
C19_Witness ==
    /\ h_ctor = <<[type |-> "str", value |-> DotLUA]>>
    /\ InCall
    /\ TheEvent = [src_path |-> XDot \o <<"L", "U", "A">>, is_directory |-> FALSE]
    /\ h_calls = <<>>
    /\ h_outcome = "returned"

=============================================================================
